---- MODULE Spec2Model ----
\* Rental management application: rental units, unit reservations, payments
\* and security deposits, as mutated by the request handlers of the
\* properties and payments apps.  Money is counted in cents (DecimalField
\* with decimal_places=2), time in hours; a request is served within one
\* reading of the clock.
EXTENDS Integers, Sequences, FiniteSets, TLC

\* ------------------------------------------------------------------ bounds
MaxUnits == 2
MaxReservations == 2
MaxPayments == 2
MaxTime == 48
MaxAccounts == 2
MaxInflight == 2
TickHours == 24

\* ------------------------------------------------------- program constants
RESERVATION_HOURS == 24
DEPOSIT_PERCENT == 113
CENT_FRACTIONS == 100

NoDate == 0 - 1
NoUser == "none"
NoUnit == 1 - 1

\* ------------------------------------------------------------------- users
ADMIN == "ADMIN"
PROPERTY_MANAGER == "PROPERTY_MANAGER"
LANDLORD == "LANDLORD"
TENANT == "TENANT"

Role == {ADMIN, PROPERTY_MANAGER, LANDLORD, TENANT}

\* The user accounts of the deployment; names are sequences of characters.
CustomUser ==
  [ admin     |-> [role |-> ADMIN,            username |-> <<"r","o","o","t">>, first_name |-> <<>>,         last_name |-> <<>>],
    manager1  |-> [role |-> PROPERTY_MANAGER, username |-> <<"m","1">>,         first_name |-> <<>>,         last_name |-> <<>>],
    manager2  |-> [role |-> PROPERTY_MANAGER, username |-> <<"m","2">>,         first_name |-> <<>>,         last_name |-> <<>>],
    landlord1 |-> [role |-> LANDLORD,         username |-> <<"l","1">>,         first_name |-> <<>>,         last_name |-> <<>>],
    landlord2 |-> [role |-> LANDLORD,         username |-> <<"l","2">>,         first_name |-> <<>>,         last_name |-> <<>>],
    tenant1   |-> [role |-> TENANT,           username |-> <<"a","n","n">>,     first_name |-> <<"A","n">>,  last_name |-> <<"B","o">>],
    tenant2   |-> [role |-> TENANT,           username |-> <<"b","o","b">>,     first_name |-> <<"B","o">>,  last_name |-> <<"N","g">>] ]

Users == DOMAIN CustomUser

Tenants == {u \in Users : CustomUser[u].role = TENANT}

\* the role test letting landlords through
NotTenant_landlord(user) == CustomUser[user].role \notin {TENANT, LANDLORD}

\* request.user.role != Role.TENANT, the first test of every tenant view
NotTenant(user) == CustomUser[user].role # TENANT

\* -------------------------------------------------------------- properties
\* Two active properties, listed oldest first (id = creation order).
Property ==
  << [owner |-> "landlord1", manager |-> "manager1", is_active |-> TRUE],
     [owner |-> "landlord2", manager |-> "manager2", is_active |-> TRUE] >>

PropertyIds == DOMAIN Property

UnitNumbers == {"A101", "A102"}

\* ------------------------------------------------------------------- state
VARIABLES now, units, reservations, payments, deposits, response,
          accounts, inflight

vars == <<now, units, reservations, payments, deposits, response,
          accounts, inflight>>

\* now          : timezone.now(), in hours
\* units        : RentalUnit rows, id = index
\* reservations : UnitReservation rows, id = index
\* payments     : Payment rows, id = index
\* deposits     : SecurityDeposit rows (unique per tenant and rental unit)
\* response     : the last request and what it was answered with
\* accounts     : CustomUser rows created through add_tenant
\* inflight     : reserve_unit requests that passed their checks and have
\*                not saved their reservation yet

OK == "ok"
Forbidden == "forbidden"
Redirect == "redirect"
NotFound == "not_found"

Answer(op, user, code, target, shown, amount) ==
  [op |-> op, user |-> user, code |-> code, target |-> target,
   shown |-> shown, amount |-> amount]

Methods == {"GET", "POST"}

\* ----------------------------------------------------------------- decimal
\* Decimal.quantize to a multiple of d under the default context
\* (ROUND_HALF_EVEN), which is how a value is brought to the two decimal
\* places of a DecimalField column.  x is in units of 1/d cent.
RoundHalfEven(x, d) ==
  LET q == x \div d
      r == x % d
  IN  IF 2 * r < d THEN q
      ELSE IF 2 * r > d THEN q + 1
      ELSE IF q % 2 = 0 THEN q ELSE q + 1

\* the deposit rate mistyped as 1.30
TimesDepositRate_130(rent_amount) == rent_amount * 130

\* rent_amount * Decimal('1.13'), in units of 1/100 cent
TimesDepositRate(rent_amount) == rent_amount * DEPOSIT_PERCENT

\* The value a DecimalField(decimal_places=2) column holds for
\* rent_amount * Decimal('1.13'), in cents.
StoredDeposit(rent_amount) ==
  RoundHalfEven(TimesDepositRate(rent_amount), CENT_FRACTIONS)

\* ------------------------------------------------------------ rental units
is_occupied(unit) == unit.current_tenant # NoUser

has_active_reservation(unit_id) ==
  \E i \in DOMAIN reservations :
    reservations[i].unit = unit_id /\ reservations[i].status = "pending"

can_be_reserved(unit_id) ==
  /\ units[unit_id].is_available
  /\ ~ is_occupied(units[unit_id])
  /\ ~ has_active_reservation(unit_id)

\* RentalUnitForm.__init__: the properties the requester may pick
PropertyChoices(user) ==
  CASE CustomUser[user].role = ADMIN ->
         {p \in PropertyIds : Property[p].is_active}
    [] CustomUser[user].role = LANDLORD ->
         {p \in PropertyIds : Property[p].owner = user /\ Property[p].is_active}
    [] CustomUser[user].role = PROPERTY_MANAGER ->
         {p \in PropertyIds : Property[p].manager = user /\ Property[p].is_active}
    [] OTHER -> {}

\* RentalUnitForm.clean: the deposit the form hands to the model, in cents
CleanDepositAmount(rent_amount, deposit_amount) ==
  IF rent_amount # 0 THEN StoredDeposit(rent_amount) ELSE deposit_amount

\* RentalUnitForm validity: property among the choices, unit number unique
\* within the property
RentalUnitFormValid(user, prop, unit_number) ==
  /\ prop \in PropertyChoices(user)
  /\ ~ \E i \in DOMAIN units :
         units[i].property = prop /\ units[i].unit_number = unit_number

add_rental_unit(user, method, prop, unit_number, rent_amount, deposit_amount, tenant, available) ==
  /\ UNCHANGED <<now, accounts, inflight, reservations, payments, deposits>>
  /\ IF CustomUser[user].role \notin {ADMIN, LANDLORD, PROPERTY_MANAGER}
     THEN /\ response' = Answer("add_rental_unit", user, Forbidden, NoUnit, {}, 0)
          /\ UNCHANGED units
     ELSE IF method = "POST" /\ RentalUnitFormValid(user, prop, unit_number)
     THEN /\ Len(units) < MaxUnits
          /\ units' = Append(units,
               [property |-> prop, unit_number |-> unit_number,
                rent_amount |-> rent_amount,
                deposit_amount |-> CleanDepositAmount(rent_amount, deposit_amount),
                is_available |-> available, current_tenant |-> tenant])
          /\ response' = Answer("add_rental_unit", user, Redirect, Len(units) + 1, {}, 0)
     ELSE /\ response' = Answer("add_rental_unit", user, OK, NoUnit, {}, 0)
          /\ UNCHANGED units

\* ------------------------------------------------------------ reservations
\* is_expired with the comparison made inclusive
is_expired_inclusive(reservation) == now >= reservation.expires_at

is_expired(reservation) == now > reservation.expires_at

can_pay_deposit(reservation) ==
  reservation.status = "pending" /\ ~ is_expired(reservation)

\* UnitReservation.save: the row that is written
save(reservation) ==
  IF is_expired(reservation) /\ reservation.status = "pending"
  THEN [reservation EXCEPT !.status = "expired"]
  ELSE reservation

\* reserve_unit: expires_at of the new reservation
NewExpiresAt == now + RESERVATION_HOURS

\* UnitReservation.confirm_payment: the reservation row
confirm_payment(reservation, payment_reference) ==
  save([reservation EXCEPT !.status = "paid",
                           !.security_deposit_paid = TRUE,
                           !.payment_reference = payment_reference,
                           !.payment_date = now])

\* UnitReservation.cancel_reservation: the reservation row
cancel_reservation_row(reservation) ==
  save([reservation EXCEPT !.status = "cancelled"])

\* reserve_unit: the tenant's first reservation in status pending or paid
\* (Meta.ordering is -reservation_date; 0 if there is none)
ExistingReservation(user) ==
  LET active == {i \in DOMAIN reservations :
                   /\ reservations[i].tenant = user
                   /\ reservations[i].status \in {"pending", "paid"}}
  IN  IF active = {} THEN 0
      ELSE CHOOSE i \in active : \A j \in active : j <= i

reserve_unit(user, unit_id, method, form_valid) ==
  /\ UNCHANGED <<now, accounts, inflight, units, payments, deposits>>
  /\ IF NotTenant(user)
     THEN /\ response' = Answer("reserve_unit", user, Forbidden, NoUnit, {}, 0)
          /\ UNCHANGED reservations
     ELSE IF unit_id \notin DOMAIN units
     THEN /\ response' = Answer("reserve_unit", user, NotFound, unit_id, {}, 0)
          /\ UNCHANGED reservations
     ELSE IF ~ can_be_reserved(unit_id)
     THEN /\ response' = Answer("reserve_unit", user, Redirect, unit_id, {}, 0)
          /\ UNCHANGED reservations
     ELSE IF ExistingReservation(user) # 0
     THEN /\ response' = Answer("reserve_unit", user, Redirect, unit_id, {ExistingReservation(user)}, 0)
          /\ UNCHANGED reservations
     ELSE IF method = "POST" /\ form_valid
     THEN /\ Len(reservations) < MaxReservations
          /\ reservations' = Append(reservations,
               save([unit |-> unit_id, tenant |-> user, status |-> "pending",
                     security_deposit_paid |-> FALSE, payment_reference |-> "",
                     payment_date |-> NoDate, reservation_date |-> now,
                     expires_at |-> NewExpiresAt]))
          /\ response' = Answer("reserve_unit", user, Redirect, unit_id, {Len(reservations) + 1}, 0)
     ELSE /\ response' = Answer("reserve_unit", user, OK, unit_id, {}, 0)
          /\ UNCHANGED reservations

\* reserve_unit as two steps, for requests served at the same time: the
\* checks of lines 155-178 first, reservation.save() of line 182 later.
\* A request that passes every check waits in inflight; any other request is
\* answered at once, as reserve_unit answers it.
ReserveChecksPass(user, unit_id, method, form_valid) ==
  /\ ~ NotTenant(user)
  /\ unit_id \in DOMAIN units
  /\ can_be_reserved(unit_id)
  /\ ExistingReservation(user) = 0
  /\ method = "POST" /\ form_valid

reserve_unit_check(user, unit_id, method, form_valid) ==
  IF ReserveChecksPass(user, unit_id, method, form_valid)
  THEN /\ Len(inflight) < MaxInflight
       /\ inflight' = Append(inflight, [tenant |-> user, unit |-> unit_id])
       /\ UNCHANGED <<now, accounts, units, reservations, payments, deposits, response>>
  ELSE reserve_unit(user, unit_id, method, form_valid)

reserve_unit_save(request) ==
  /\ request \in DOMAIN inflight
  /\ Len(reservations) < MaxReservations
  /\ reservations' = Append(reservations,
       save([unit |-> inflight[request].unit, tenant |-> inflight[request].tenant,
             status |-> "pending",
             security_deposit_paid |-> FALSE, payment_reference |-> "",
             payment_date |-> NoDate, reservation_date |-> now,
             expires_at |-> NewExpiresAt]))
  /\ inflight' = SubSeq(inflight, 1, request - 1)
                   \o SubSeq(inflight, request + 1, Len(inflight))
  /\ response' = Answer("reserve_unit", inflight[request].tenant, Redirect,
                        inflight[request].unit, {Len(reservations) + 1}, 0)
  /\ UNCHANGED <<now, accounts, units, payments, deposits>>

reservation_detail(user, reservation_id) ==
  /\ UNCHANGED <<now, accounts, inflight, units, reservations, payments, deposits>>
  /\ IF reservation_id \notin DOMAIN reservations
     THEN response' = Answer("reservation_detail", user, NotFound, reservation_id, {}, 0)
     ELSE IF reservations[reservation_id].tenant # user
     THEN response' = Answer("reservation_detail", user, Forbidden, reservation_id, {}, 0)
     ELSE IF is_expired(reservations[reservation_id])
             /\ reservations[reservation_id].status = "pending"
     THEN response' = Answer("reservation_detail", user, Redirect, reservation_id, {}, 0)
     ELSE response' = Answer("reservation_detail", user, OK, reservation_id, {}, 0)

payment_redirect(user, reservation_id) ==
  /\ UNCHANGED <<now, accounts, inflight, units, reservations, payments, deposits>>
  /\ IF reservation_id \notin DOMAIN reservations
     THEN response' = Answer("payment_redirect", user, NotFound, reservation_id, {}, 0)
     ELSE IF reservations[reservation_id].tenant # user
     THEN response' = Answer("payment_redirect", user, Forbidden, reservation_id, {}, 0)
     ELSE IF ~ can_pay_deposit(reservations[reservation_id])
     THEN response' = Answer("payment_redirect", user, Redirect, reservation_id, {}, 0)
     ELSE response' = Answer("payment_redirect", user, OK, reservation_id, {},
                             units[reservations[reservation_id].unit].deposit_amount)

\* payment_success without the test that the requester owns the reservation
payment_success_any_user(user, reservation_id, payment_reference) ==
  /\ UNCHANGED <<now, accounts, inflight, payments, deposits>>
  /\ IF reservation_id \notin DOMAIN reservations
     THEN /\ response' = Answer("payment_success", user, NotFound, reservation_id, {}, 0)
          /\ UNCHANGED <<units, reservations>>
     ELSE /\ reservations' = [reservations EXCEPT ![reservation_id] =
                                confirm_payment(@, payment_reference)]
          /\ units' = [units EXCEPT ![reservations[reservation_id].unit].is_available = FALSE]
          /\ response' = Answer("payment_success", user, Redirect, reservation_id, {}, 0)

payment_success(user, reservation_id, payment_reference) ==
  /\ UNCHANGED <<now, accounts, inflight, payments, deposits>>
  /\ IF reservation_id \notin DOMAIN reservations
     THEN /\ response' = Answer("payment_success", user, NotFound, reservation_id, {}, 0)
          /\ UNCHANGED <<units, reservations>>
     ELSE IF reservations[reservation_id].tenant # user
     THEN /\ response' = Answer("payment_success", user, Forbidden, reservation_id, {}, 0)
          /\ UNCHANGED <<units, reservations>>
     ELSE /\ reservations' = [reservations EXCEPT ![reservation_id] =
                                confirm_payment(@, payment_reference)]
          /\ units' = [units EXCEPT ![reservations[reservation_id].unit].is_available = FALSE]
          /\ response' = Answer("payment_success", user, Redirect, reservation_id, {}, 0)

cancel_reservation(user, reservation_id, method) ==
  /\ UNCHANGED <<now, accounts, inflight, payments, deposits>>
  /\ IF reservation_id \notin DOMAIN reservations
     THEN /\ response' = Answer("cancel_reservation", user, NotFound, reservation_id, {}, 0)
          /\ UNCHANGED <<units, reservations>>
     ELSE IF reservations[reservation_id].tenant # user
     THEN /\ response' = Answer("cancel_reservation", user, Forbidden, reservation_id, {}, 0)
          /\ UNCHANGED <<units, reservations>>
     ELSE IF reservations[reservation_id].status \notin {"pending", "paid"}
     THEN /\ response' = Answer("cancel_reservation", user, Redirect, reservation_id, {}, 0)
          /\ UNCHANGED <<units, reservations>>
     ELSE IF method = "POST"
     THEN /\ reservations' = [reservations EXCEPT ![reservation_id] =
                                cancel_reservation_row(@)]
          /\ units' = [units EXCEPT ![reservations[reservation_id].unit].is_available = TRUE]
          /\ response' = Answer("cancel_reservation", user, Redirect, reservation_id, {}, 0)
     ELSE /\ response' = Answer("cancel_reservation", user, OK, reservation_id, {}, 0)
          /\ UNCHANGED <<units, reservations>>

\* available_units: the units listed to a tenant
AvailableUnits ==
  {i \in DOMAIN units :
     /\ units[i].is_available
     /\ units[i].current_tenant = NoUser
     /\ ~ \E r \in DOMAIN reservations :
            /\ reservations[r].unit = i
            /\ reservations[r].status \in {"pending", "paid", "confirmed"}}

available_units(user) ==
  /\ UNCHANGED <<now, accounts, inflight, units, reservations, payments, deposits>>
  /\ IF NotTenant(user)
     THEN response' = Answer("available_units", user, Forbidden, NoUnit, {}, 0)
     ELSE response' = Answer("available_units", user, OK, NoUnit, AvailableUnits, 0)

\* Payment.objects.create with the model's defaults
NewPayment(tenant, unit_id, payment_type, payment_method, amount, months) ==
  [tenant |-> tenant, rental_unit |-> unit_id,
   property |-> units[unit_id].property,
   payment_type |-> payment_type, payment_method |-> payment_method,
   amount |-> amount, months_paid_for |-> months,
   status |-> "pending", processed_date |-> NoDate]

make_rental_payment(user, unit_id, method, payment_method, months_paid) ==
  /\ UNCHANGED <<now, accounts, inflight, units, reservations, deposits>>
  /\ IF NotTenant(user)
     THEN /\ response' = Answer("make_rental_payment", user, Forbidden, NoUnit, {}, 0)
          /\ UNCHANGED payments
     ELSE IF unit_id \notin DOMAIN units
     THEN /\ response' = Answer("make_rental_payment", user, NotFound, unit_id, {}, 0)
          /\ UNCHANGED payments
     ELSE IF units[unit_id].current_tenant # user
     THEN /\ response' = Answer("make_rental_payment", user, Redirect, unit_id, {}, 0)
          /\ UNCHANGED payments
     ELSE IF method = "POST"
     THEN /\ Len(payments) < MaxPayments
          /\ payments' = Append(payments,
               NewPayment(user, unit_id, "rent", payment_method,
                          units[unit_id].rent_amount * months_paid, months_paid))
          /\ response' = Answer("make_rental_payment", user, Redirect, unit_id, {},
                                units[unit_id].rent_amount * months_paid)
     ELSE /\ response' = Answer("make_rental_payment", user, OK, unit_id, {}, 0)
          /\ UNCHANGED payments

\* ---------------------------------------------------------------- payments
PAYMENT_STATUS == {"pending", "processing", "completed", "failed", "cancelled"}
PAYMENT_TYPES == {"rent", "security_deposit", "other"}

MIN_MONTHS == 1
MAX_MONTHS == 6

\* RentalUnit.objects.filter(current_tenant=user, is_available=False)
RentalUnitsOf(user) ==
  {i \in DOMAIN units : units[i].current_tenant = user /\ ~ units[i].is_available}

\* get_object_or_404(RentalUnit, id=unit_id, current_tenant=user)
UnitOfTenant(user, unit_id) ==
  unit_id \in DOMAIN units /\ units[unit_id].current_tenant = user

\* RentalUnit.Meta.ordering: by property (Property.Meta.ordering is
\* -created_at, so the newer property first), then by unit number
UnitNumberBefore(a, b) == a = "A101" /\ b = "A102"

UnitBefore(i, j) ==
  \/ units[i].property > units[j].property
  \/ /\ units[i].property = units[j].property
     /\ UnitNumberBefore(units[i].unit_number, units[j].unit_number)

\* SecurityDeposit.save: amount is computed when it is not set
DepositSaved(deposit, unit_id) ==
  IF deposit.amount = 0
  THEN [deposit EXCEPT !.amount = StoredDeposit(units[unit_id].rent_amount)]
  ELSE deposit

\* SecurityDeposit.objects.get_or_create(tenant, rental_unit,
\* defaults={'amount': rent_amount * Decimal('1.13')}): the table afterwards
GetOrCreateDeposit(table, tenant, unit_id) ==
  IF <<tenant, unit_id>> \in DOMAIN table
  THEN table
  ELSE table @@ (<<tenant, unit_id>> :>
         DepositSaved([amount |-> StoredDeposit(units[unit_id].rent_amount),
                       is_paid |-> FALSE, payment_date |-> NoDate], unit_id))

\* SecurityDeposit.objects.get_or_create(tenant, rental_unit) without
\* defaults, as update_payment_status calls it
GetOrCreateDepositNoDefaults(table, tenant, unit_id) ==
  IF <<tenant, unit_id>> \in DOMAIN table
  THEN table
  ELSE table @@ (<<tenant, unit_id>> :>
         DepositSaved([amount |-> 0, is_paid |-> FALSE,
                       payment_date |-> NoDate], unit_id))

\* deposit.amount as the view holds it after get_or_create, once written to
\* Payment.amount: the product itself when the row was just created, the
\* stored amount otherwise
DepositAmountForPayment(tenant, unit_id) ==
  IF <<tenant, unit_id>> \in DOMAIN deposits
  THEN deposits[<<tenant, unit_id>>].amount
  ELSE RoundHalfEven(TimesDepositRate(units[unit_id].rent_amount), CENT_FRACTIONS)

payment_dashboard(user) ==
  /\ UNCHANGED <<now, accounts, inflight, units, reservations, payments, deposits>>
  /\ IF NotTenant(user)
     THEN response' = Answer("payment_dashboard", user, Forbidden, NoUnit, {}, 0)
     ELSE response' = Answer("payment_dashboard", user, OK, NoUnit,
                             {i \in DOMAIN payments : payments[i].tenant = user}, 0)

\* make_payment: the unit at which the deposit loop stops, the first of the
\* tenant's units (in Meta.ordering) without a paid deposit; NoUnit if none
FirstUnpaidUnit(user) ==
  LET unpaid == {i \in RentalUnitsOf(user) :
                   \/ <<user, i>> \notin DOMAIN deposits
                   \/ ~ deposits[<<user, i>>].is_paid}
  IN  IF unpaid = {} THEN NoUnit
      ELSE CHOOSE i \in unpaid : \A j \in unpaid \ {i} : UnitBefore(i, j)

make_payment(user, method, payment_method) ==
  /\ UNCHANGED <<now, accounts, inflight, units, reservations, payments>>
  /\ IF NotTenant(user)
     THEN /\ response' = Answer("make_payment", user, Forbidden, NoUnit, {}, 0)
          /\ UNCHANGED deposits
     ELSE IF RentalUnitsOf(user) = {}
     THEN /\ response' = Answer("make_payment", user, Redirect, NoUnit, {}, 0)
          /\ UNCHANGED deposits
     ELSE /\ deposits' = IF FirstUnpaidUnit(user) = NoUnit THEN deposits
                         ELSE GetOrCreateDeposit(deposits, user, FirstUnpaidUnit(user))
          /\ IF method = "POST" /\ payment_method \in {"mpesa", "bank_card"}
             THEN response' = Answer("make_payment", user, Redirect, NoUnit, {}, 0)
             ELSE response' = Answer("make_payment", user, OK, NoUnit, {}, 0)

\* mpesa_payment and bank_card_payment differ in the pages they lead to
PaymentTypeSelection(op, user, method, payment_type) ==
  /\ UNCHANGED <<now, accounts, inflight, units, reservations, payments, deposits>>
  /\ IF NotTenant(user)
     THEN response' = Answer(op, user, Forbidden, NoUnit, {}, 0)
     ELSE IF method = "POST" /\ payment_type \in {"security_deposit", "rent"}
     THEN response' = Answer(op, user, Redirect, NoUnit, {}, 0)
     ELSE response' = Answer(op, user, OK, NoUnit, RentalUnitsOf(user), 0)

mpesa_payment(user, method, payment_type) ==
  PaymentTypeSelection("mpesa_payment", user, method, payment_type)

bank_card_payment(user, method, payment_type) ==
  PaymentTypeSelection("bank_card_payment", user, method, payment_type)

\* security_deposit_mpesa and security_deposit_bank_card
SecurityDepositPayment(op, payment_method, user, unit_id, method, form_valid) ==
  /\ UNCHANGED <<now, accounts, inflight, units, reservations>>
  /\ IF NotTenant(user)
     THEN /\ response' = Answer(op, user, Forbidden, NoUnit, {}, 0)
          /\ UNCHANGED <<payments, deposits>>
     ELSE IF ~ UnitOfTenant(user, unit_id)
     THEN /\ response' = Answer(op, user, NotFound, unit_id, {}, 0)
          /\ UNCHANGED <<payments, deposits>>
     ELSE /\ deposits' = GetOrCreateDeposit(deposits, user, unit_id)
          /\ IF deposits'[<<user, unit_id>>].is_paid
             THEN /\ response' = Answer(op, user, Redirect, unit_id, {}, 0)
                  /\ UNCHANGED payments
             ELSE IF method = "POST" /\ form_valid
             THEN /\ Len(payments) < MaxPayments
                  /\ payments' = Append(payments,
                       NewPayment(user, unit_id, "security_deposit", payment_method,
                                  DepositAmountForPayment(user, unit_id), 0))
                  /\ response' = Answer(op, user, Redirect, unit_id,
                                        {Len(payments) + 1}, 0)
             ELSE /\ response' = Answer(op, user, OK, unit_id, {}, 0)
                  /\ UNCHANGED payments

security_deposit_mpesa(user, unit_id, method, form_valid) ==
  SecurityDepositPayment("security_deposit_mpesa", "mpesa", user, unit_id, method, form_valid)

security_deposit_bank_card(user, unit_id, method, form_valid) ==
  SecurityDepositPayment("security_deposit_bank_card", "bank_card", user, unit_id, method, form_valid)

\* RentPaymentForm: months_paid_for within min_value and max_value
RentPaymentFormValid(months) == months >= MIN_MONTHS /\ months <= MAX_MONTHS

\* rent_payment_mpesa and rent_payment_bank_card
RentPayment(op, payment_method, user, unit_id, method, months, form_valid) ==
  /\ UNCHANGED <<now, accounts, inflight, units, reservations>>
  /\ IF NotTenant(user)
     THEN /\ response' = Answer(op, user, Forbidden, NoUnit, {}, 0)
          /\ UNCHANGED <<payments, deposits>>
     ELSE IF ~ UnitOfTenant(user, unit_id)
     THEN /\ response' = Answer(op, user, NotFound, unit_id, {}, 0)
          /\ UNCHANGED <<payments, deposits>>
     ELSE /\ deposits' = GetOrCreateDeposit(deposits, user, unit_id)
          /\ IF ~ deposits'[<<user, unit_id>>].is_paid
             THEN /\ response' = Answer(op, user, Redirect, unit_id, {}, 0)
                  /\ UNCHANGED payments
             ELSE IF method = "POST" /\ RentPaymentFormValid(months) /\ form_valid
             THEN /\ Len(payments) < MaxPayments
                  /\ payments' = Append(payments,
                       NewPayment(user, unit_id, "rent", payment_method,
                                  units[unit_id].rent_amount * months, months))
                  /\ response' = Answer(op, user, Redirect, unit_id,
                                        {Len(payments) + 1}, 0)
             ELSE /\ response' = Answer(op, user, OK, unit_id, {}, 0)
                  /\ UNCHANGED payments

rent_payment_mpesa(user, unit_id, method, months, form_valid) ==
  RentPayment("rent_payment_mpesa", "mpesa", user, unit_id, method, months, form_valid)

rent_payment_bank_card(user, unit_id, method, months, form_valid) ==
  RentPayment("rent_payment_bank_card", "bank_card", user, unit_id, method, months, form_valid)

\* ------------------------------------------------------- payment back office
\* str.lower on one character
LowerChar(c) ==
  CASE c = "A" -> "a" [] c = "B" -> "b" [] c = "N" -> "n" [] OTHER -> c

Lower(s) == [i \in DOMAIN s |-> LowerChar(s[i])]

\* the icontains lookup
icontains(text, query) ==
  \E i \in 1..(Len(text) - Len(query) + 1) :
    SubSeq(Lower(text), i, i + Len(query) - 1) = Lower(query)

\* the role queryset with property managers given every payment
PaymentsForRole_all(user) ==
  IF CustomUser[user].role \in {ADMIN, PROPERTY_MANAGER}
  THEN DOMAIN payments
  ELSE {i \in DOMAIN payments : Property[payments[i].property].owner = user}

\* view_payments: the queryset for the requester's role
PaymentsForRole(user) ==
  CASE CustomUser[user].role = ADMIN -> DOMAIN payments
    [] CustomUser[user].role = PROPERTY_MANAGER ->
         {i \in DOMAIN payments : Property[payments[i].property].manager = user}
    [] CustomUser[user].role = LANDLORD ->
         {i \in DOMAIN payments : Property[payments[i].property].owner = user}
    [] OTHER -> {}

\* view_payments: the status, payment_type and search filters; an empty
\* parameter leaves the queryset as it is
FilterPayments(set, status_filter, payment_type_filter, search_query) ==
  {i \in set :
     /\ status_filter = "" \/ payments[i].status = status_filter
     /\ payment_type_filter = "" \/ payments[i].payment_type = payment_type_filter
     /\ \/ search_query = <<>>
        \/ icontains(CustomUser[payments[i].tenant].first_name, search_query)
        \/ icontains(CustomUser[payments[i].tenant].last_name, search_query)
        \/ icontains(CustomUser[payments[i].tenant].username, search_query)}

view_payments(user, status_filter, payment_type_filter, search_query) ==
  /\ UNCHANGED <<now, accounts, inflight, units, reservations, payments, deposits>>
  /\ IF CustomUser[user].role \notin {ADMIN, PROPERTY_MANAGER, LANDLORD}
     THEN response' = Answer("view_payments", user, Forbidden,
                             NoUnit, {}, 0)
     ELSE response' = Answer("view_payments", user, OK,
                             <<status_filter, payment_type_filter, search_query>>,
                             FilterPayments(PaymentsForRole(user), status_filter,
                                            payment_type_filter, search_query), 0)

\* the permission check without its landlord branch
MayViewPayment_manager_only(user, payment) ==
  ~ (CustomUser[user].role = PROPERTY_MANAGER
     /\ Property[payment.property].manager # user)

\* payment_details: the per-payment permission check
MayViewPayment(user, payment) ==
  /\ ~ (CustomUser[user].role = PROPERTY_MANAGER
        /\ Property[payment.property].manager # user)
  /\ ~ (CustomUser[user].role = LANDLORD
        /\ Property[payment.property].owner # user)

payment_details(user, payment_id) ==
  /\ UNCHANGED <<now, accounts, inflight, units, reservations, payments, deposits>>
  /\ IF CustomUser[user].role \notin {ADMIN, PROPERTY_MANAGER, LANDLORD}
     THEN response' = Answer("payment_details", user, Forbidden, NoUnit, {}, 0)
     ELSE IF payment_id \notin DOMAIN payments
     THEN response' = Answer("payment_details", user, NotFound, payment_id, {}, 0)
     ELSE IF ~ MayViewPayment(user, payments[payment_id])
     THEN response' = Answer("payment_details", user, Forbidden, payment_id, {}, 0)
     ELSE response' = Answer("payment_details", user, OK, payment_id, {payment_id}, 0)

\* the permission check with landlords admitted
MayUpdatePayment_landlord(user) ==
  CustomUser[user].role \in {ADMIN, PROPERTY_MANAGER, LANDLORD}

\* update_payment_status: who passes the permission check
MayUpdatePayment(user) ==
  CustomUser[user].role \in {ADMIN, PROPERTY_MANAGER}

\* update_payment_status: the deposit table after a security deposit
\* payment was marked completed
DepositMarkedPaid(payment) ==
  LET key == <<payment.tenant, payment.rental_unit>>
      table == GetOrCreateDepositNoDefaults(deposits, payment.tenant, payment.rental_unit)
  IN  [table EXCEPT ![key] =
         DepositSaved([@ EXCEPT !.is_paid = TRUE, !.payment_date = now],
                      payment.rental_unit)]

update_payment_status(user, payment_id, method, new_status) ==
  /\ UNCHANGED <<now, accounts, inflight, units, reservations>>
  /\ IF ~ MayUpdatePayment(user)
     THEN /\ response' = Answer("update_payment_status", user, Forbidden, NoUnit, {}, 0)
          /\ UNCHANGED <<payments, deposits>>
     ELSE IF payment_id \notin DOMAIN payments
     THEN /\ response' = Answer("update_payment_status", user, NotFound, payment_id, {}, 0)
          /\ UNCHANGED <<payments, deposits>>
     ELSE /\ response' = Answer("update_payment_status", user, Redirect, payment_id, {}, 0)
          /\ IF method = "POST" /\ new_status \in PAYMENT_STATUS
             THEN /\ payments' = [payments EXCEPT ![payment_id] =
                         [@ EXCEPT !.status = new_status,
                                   !.processed_date =
                                      IF new_status = "completed" THEN now ELSE @]]
                  /\ deposits' =
                       IF new_status = "completed"
                          /\ payments[payment_id].payment_type = "security_deposit"
                       THEN DepositMarkedPaid(payments[payment_id])
                       ELSE deposits
             ELSE UNCHANGED <<payments, deposits>>


\* ------------------------------------------------------- property listing
\* Text is a sequence of characters.
Nairobi == <<"N","a","i","r","o","b","i">>
UasinGishu == <<"U","a","s","i","n"," ","G","i","s","h","u">>

\* Property.COUNTY_CHOICES, from stored value to display name
COUNTY_CHOICES ==
  [nairobi |-> Nairobi, uasin_gishu |-> UasinGishu, other |-> <<"O","t","h","e","r">>]

get_county_display(property) == COUNTY_CHOICES[property.county]

\* Property.__str__
Property__str__(property) == property.name

\* str(property), as the admin lists and the form choices print it
str_property(name, town, county) ==
  /\ UNCHANGED <<now, accounts, inflight, units, reservations, payments, deposits>>
  /\ LET property == [name |-> name, town |-> town, county |-> county]
     IN  response' = Answer("str_property", NoUser, OK, property,
                            {Property__str__(property)}, 0)

\* get_total_units_count without the restriction to the property's own units
get_total_units_count_all(property_id) ==
  Cardinality(DOMAIN units)

\* Property.get_total_units_count: self.units.count()
get_total_units_count(property_id) ==
  Cardinality({i \in DOMAIN units : units[i].property = property_id})

\* Property.get_available_units_count: self.units.filter(is_available=True).count()
get_available_units_count(property_id) ==
  Cardinality({i \in DOMAIN units :
                 units[i].property = property_id /\ units[i].is_available})

\* PropertyAdmin: the 'Total Units' and 'Available/Total' columns of the
\* property list, one row <<property, available, total>> per property
PropertyAdmin_list(user) ==
  /\ UNCHANGED <<now, accounts, inflight, units, reservations, payments, deposits>>
  /\ response' = Answer("PropertyAdmin_list", user, OK, NoUnit,
                        {<<p, get_available_units_count(p), get_total_units_count(p)>> :
                           p \in PropertyIds}, 0)

\* ------------------------------------------------------------ user accounts
\* TenantCreationForm.__init__ with every role offered to every requester
RoleChoices_any(user) == Role

\* TenantCreationForm.__init__: the roles the form offers to the requester
RoleChoices(user) ==
  IF CustomUser[user].role = ADMIN
  THEN {TENANT, LANDLORD, PROPERTY_MANAGER, ADMIN}
  ELSE IF CustomUser[user].role \in {PROPERTY_MANAGER, LANDLORD}
  THEN {TENANT}
  ELSE {}

\* TenantCreationForm.clean_username: no user has the username yet
UsernameFree(username) ==
  /\ \A u \in Users : CustomUser[u].username # username
  /\ \A i \in DOMAIN accounts : accounts[i].username # username

\* TenantCreationForm.is_valid; fields_valid stands for the fields that are
\* not modelled (email, phone number, passwords)
TenantCreationFormValid(user, username, role, fields_valid) ==
  /\ fields_valid
  /\ role \in RoleChoices(user)
  /\ UsernameFree(username)

\* add_tenant: the new user is saved before the requester's role is looked
\* at again; the answer shows the method and where the redirect leads
add_tenant(user, method, username, role, fields_valid) ==
  /\ UNCHANGED <<now, inflight, units, reservations, payments, deposits>>
  /\ IF CustomUser[user].role \notin {ADMIN, PROPERTY_MANAGER, LANDLORD}
     THEN /\ response' = Answer("add_tenant", user, Forbidden, role, {method}, 0)
          /\ UNCHANGED accounts
     ELSE IF method = "POST" /\ TenantCreationFormValid(user, username, role, fields_valid)
     THEN /\ Len(accounts) < MaxAccounts
          /\ accounts' = Append(accounts, [username |-> username, role |-> role])
          /\ IF CustomUser[user].role \in {PROPERTY_MANAGER, LANDLORD} /\ role # TENANT
             THEN response' = Answer("add_tenant", user, Redirect, role,
                                     {method, "users:add_tenant"}, 0)
             ELSE response' = Answer("add_tenant", user, Redirect, role,
                                     {method, "users:tenant_list"}, 0)
     ELSE /\ response' = Answer("add_tenant", user, OK, role, {method}, 0)
          /\ UNCHANGED accounts

\* The clock advances between requests.
Tick ==
  /\ now + TickHours <= MaxTime
  /\ now' = now + TickHours
  /\ UNCHANGED <<accounts, inflight, units, reservations, payments, deposits, response>>

\* ------------------------------------------------------------ request inputs
RentInputs == {0, 150, 2000000}
DepositInputs == {500}
MonthsInputs == {1, 7}
PaymentMethodInputs == {"mpesa", "bank_card"}
ReferenceInputs == {"PAY"}
PaymentTypeInputs == {"rent", "other"}
StatusInputs == {"completed", "failed", "bogus"}
StatusFilters == {"", "pending", "completed"}
PaymentTypeFilters == {"", "rent"}
SearchQueries == {<<>>, <<"b","O">>}

UnitIds == 1..MaxUnits
ReservationIds == 1..MaxReservations
PaymentIds == 1..MaxPayments

\* ------------------------------------------------------------ specification
NoAnswer == Answer("none", NoUser, OK, NoUnit, {}, 0)

\* A unit as add_rental_unit stores it.
Unit(prop, unit_number, rent_amount, tenant, available) ==
  [property |-> prop, unit_number |-> unit_number, rent_amount |-> rent_amount,
   deposit_amount |-> CleanDepositAmount(rent_amount, 0),
   is_available |-> available, current_tenant |-> tenant]

\* Reservation lifecycle: two units on the market (the second one possibly
\* let to tenant2 already), tenants reserve, pay and cancel while the clock
\* advances.
Init ==
  /\ now = 0
  /\ \E tenant \in {NoUser, "tenant2"} :
       units = << Unit(1, "A101", 2000000, NoUser, TRUE),
                  Unit(2, "A101", 150, tenant, tenant = NoUser) >>
  /\ reservations = <<>>
  /\ payments = <<>>
  /\ deposits = <<>>
  /\ response = NoAnswer
  /\ accounts = <<>>
  /\ inflight = <<>>

Next ==
  \/ \E user \in Tenants, unit_id \in UnitIds, method \in Methods,
        form_valid \in BOOLEAN :
       reserve_unit(user, unit_id, method, form_valid)
  \/ \E user \in Tenants, reservation_id \in ReservationIds :
       reservation_detail(user, reservation_id)
  \/ \E user \in Tenants, reservation_id \in ReservationIds :
       payment_redirect(user, reservation_id)
  \/ \E user \in Tenants, reservation_id \in ReservationIds,
        ref \in ReferenceInputs :
       payment_success(user, reservation_id, ref)
  \/ \E user \in Tenants, reservation_id \in ReservationIds,
        method \in Methods :
       cancel_reservation(user, reservation_id, method)
  \/ Tick

Spec == Init /\ [][Next]_vars

\* Unit administration: units are added through the form, reserved, and the
\* deposit is asked for.
UnitUsers == {"admin", "landlord1", "tenant1"}

InitUnits ==
  /\ now = 0
  /\ units = <<>>
  /\ reservations = <<>>
  /\ payments = <<>>
  /\ deposits = <<>>
  /\ response = NoAnswer
  /\ accounts = <<>>
  /\ inflight = <<>>

NextUnits ==
  \/ \E user \in UnitUsers, method \in Methods, prop \in PropertyIds,
        unit_number \in UnitNumbers, rent_amount \in RentInputs,
        deposit_amount \in DepositInputs, tenant \in {NoUser, "tenant2"},
        available \in BOOLEAN :
       add_rental_unit(user, method, prop, unit_number, rent_amount,
                       deposit_amount, tenant, available)
  \/ \E unit_id \in UnitIds : reserve_unit("tenant1", unit_id, "POST", TRUE)
  \/ \E reservation_id \in ReservationIds :
       payment_redirect("tenant1", reservation_id)

SpecUnits == InitUnits /\ [][NextUnits]_vars

\* Tenant operations: unit 1 is let to tenant1, unit 2 is let or on the
\* market; users of every role call the tenant views, the administrator
\* settles the payments.
TenantViewUsers == {"tenant1", "landlord1", "manager1", "admin"}

InitTenant ==
  /\ now = 0
  /\ \E tenant \in {"tenant1", NoUser} :
       units = << Unit(1, "A101", 1234567, "tenant1", FALSE),
                  Unit(2, "A101", 2000000, tenant, tenant = NoUser) >>
  /\ reservations = <<>>
  /\ payments = <<>>
  /\ deposits = <<>>
  /\ response = NoAnswer
  /\ accounts = <<>>
  /\ inflight = <<>>

NextTenant ==
  \/ \E user \in TenantViewUsers, unit_id \in UnitIds, method \in Methods :
       reserve_unit(user, unit_id, method, TRUE)
  \/ \E user \in TenantViewUsers : available_units(user)
  \/ \E user \in TenantViewUsers, unit_id \in UnitIds, method \in Methods,
        months_paid \in MonthsInputs :
       make_rental_payment(user, unit_id, method, "bank_transfer", months_paid)
  \/ \E user \in TenantViewUsers : payment_dashboard(user)
  \/ \E user \in TenantViewUsers, method \in Methods :
       make_payment(user, method, "mpesa")
  \/ \E user \in TenantViewUsers, method \in Methods, payment_type \in PaymentTypeInputs :
       mpesa_payment(user, method, payment_type)
  \/ \E user \in TenantViewUsers, method \in Methods, payment_type \in PaymentTypeInputs :
       bank_card_payment(user, method, payment_type)
  \/ \E user \in TenantViewUsers, unit_id \in UnitIds, method \in Methods :
       security_deposit_mpesa(user, unit_id, method, TRUE)
  \/ \E user \in TenantViewUsers, unit_id \in UnitIds, method \in Methods :
       security_deposit_bank_card(user, unit_id, method, TRUE)
  \/ \E user \in TenantViewUsers, unit_id \in UnitIds, method \in Methods,
        months \in MonthsInputs :
       rent_payment_mpesa(user, unit_id, method, months, TRUE)
  \/ \E user \in TenantViewUsers, unit_id \in UnitIds, method \in Methods,
        months \in MonthsInputs :
       rent_payment_bank_card(user, unit_id, method, months, TRUE)
  \/ \E payment_id \in PaymentIds :
       update_payment_status("admin", payment_id, "POST", "completed")

SpecTenant == InitTenant /\ [][NextTenant]_vars

\* Payment back office: both units are let, the tenants pay, and users of
\* every role list, open and update the payments.
InitBackOffice ==
  /\ now = 0
  /\ units = << Unit(1, "A101", 1234567, "tenant1", FALSE),
                Unit(2, "A101", 2000000, "tenant2", FALSE) >>
  /\ reservations = <<>>
  /\ payments = <<>>
  /\ deposits = <<>>
  /\ response = NoAnswer
  /\ accounts = <<>>
  /\ inflight = <<>>

NextBackOffice ==
  \/ \E user \in Tenants, unit_id \in UnitIds :
       security_deposit_mpesa(user, unit_id, "POST", TRUE)
  \/ \E user \in Tenants, unit_id \in UnitIds, months \in MonthsInputs :
       rent_payment_bank_card(user, unit_id, "POST", months, TRUE)
  \/ \E user \in Users, status_filter \in StatusFilters,
        payment_type_filter \in PaymentTypeFilters, search_query \in SearchQueries :
       view_payments(user, status_filter, payment_type_filter, search_query)
  \/ \E user \in Users, payment_id \in PaymentIds :
       payment_details(user, payment_id)
  \/ \E user \in Users, payment_id \in PaymentIds, method \in Methods,
        new_status \in StatusInputs :
       update_payment_status(user, payment_id, method, new_status)

SpecBackOffice == InitBackOffice /\ [][NextBackOffice]_vars

\* Property catalogue: units are added to the two properties, taken off the
\* market and put back by reservations, and the properties are listed.
PropertyNameInputs == {<<"T","e","s","t"," ","A","p","a","r","t","m","e","n","t","s">>, <<"K","a","z","i">>}
TownInputs == {<<"W","e","s","t","l","a","n","d","s">>, <<"C","B","D">>}
CountyInputs == {"nairobi", "uasin_gishu"}

InitCatalogue ==
  /\ now = 0
  /\ units = <<>>
  /\ reservations = <<>>
  /\ payments = <<>>
  /\ deposits = <<>>
  /\ response = NoAnswer
  /\ accounts = <<>>
  /\ inflight = <<>>

NextCatalogue ==
  \/ \E prop \in PropertyIds, unit_number \in UnitNumbers, available \in BOOLEAN :
       add_rental_unit("admin", "POST", prop, unit_number, 150, 500, NoUser, available)
  \/ \E unit_id \in UnitIds : reserve_unit("tenant1", unit_id, "POST", TRUE)
  \/ \E reservation_id \in ReservationIds :
       payment_success("tenant1", reservation_id, "PAY")
  \/ \E reservation_id \in ReservationIds :
       cancel_reservation("tenant1", reservation_id, "POST")
  \/ PropertyAdmin_list("admin")
  \/ \E name \in PropertyNameInputs, town \in TownInputs, county \in CountyInputs :
       str_property(name, town, county)

SpecCatalogue == InitCatalogue /\ [][NextCatalogue]_vars

\* User accounts: users of every role ask for new accounts of every role.
AccountUsers == {"admin", "manager1", "landlord1", "tenant1"}
UsernameInputs == {<<"c","a","l">>, <<"d","e","e">>, <<"a","n","n">>}

InitAccounts ==
  /\ now = 0
  /\ units = <<>>
  /\ reservations = <<>>
  /\ payments = <<>>
  /\ deposits = <<>>
  /\ response = NoAnswer
  /\ accounts = <<>>
  /\ inflight = <<>>

NextAccounts ==
  \E user \in AccountUsers, method \in Methods, username \in UsernameInputs,
     role \in Role, fields_valid \in BOOLEAN :
    add_tenant(user, method, username, role, fields_valid)

SpecAccounts == InitAccounts /\ [][NextAccounts]_vars

\* Reservations made at the same time: two units on the market, the
\* tenants' reserve_unit requests are served in two steps each, and
\* reservations are cancelled.
InitRace ==
  /\ now = 0
  /\ units = << Unit(1, "A101", 2000000, NoUser, TRUE),
                Unit(2, "A101", 150, NoUser, TRUE) >>
  /\ reservations = <<>>
  /\ payments = <<>>
  /\ deposits = <<>>
  /\ response = NoAnswer
  /\ accounts = <<>>
  /\ inflight = <<>>

NextRace ==
  \/ \E user \in Tenants, unit_id \in UnitIds, method \in Methods :
       reserve_unit_check(user, unit_id, method, TRUE)
  \/ \E request \in 1..MaxInflight : reserve_unit_save(request)
  \/ \E user \in Tenants, reservation_id \in ReservationIds :
       cancel_reservation(user, reservation_id, "POST")

SpecRace == InitRace /\ [][NextRace]_vars

\* ------------------------------------------------------------------ claims
Abs(x) == IF x < 0 THEN 0 - x ELSE x

\* amount (cents) is rent_amount * 1.13 brought to the nearest cent
NearestCentOfDeposit(amount, rent_amount) ==
  2 * Abs(amount * CENT_FRACTIONS - rent_amount * DEPOSIT_PERCENT) <= CENT_FRACTIONS

\* C1: a pending reservation whose expires_at has passed no longer holds the
\* unit: a unit that is available, has no tenant and has only time-expired
\* pending reservations can be reserved again.
C1_ExpiredHoldReleased ==
  \A u \in DOMAIN units :
    ( /\ units[u].is_available
      /\ units[u].current_tenant = NoUser
      /\ \A r \in DOMAIN reservations :
           (reservations[r].unit = u /\ reservations[r].status = "pending")
             => now > reservations[r].expires_at )
    => can_be_reserved(u)

\* C2: a reservation turns 'paid' only from status 'pending' with expires_at
\* not yet passed.
C2_PaidOnlyWhilePayable ==
  [][ \A r \in DOMAIN reservations :
        (reservations'[r].status = "paid" /\ reservations[r].status # "paid")
          => (reservations[r].status = "pending"
              /\ ~ (now > reservations[r].expires_at)) ]_vars

\* C3: a reservation created by reserve_unit starts pending and unpaid with
\* expires_at 24 hours after its creation and is not expired then; at any
\* time it is expired exactly when more than 24 hours have passed since its
\* creation.
C3_ReservationStart ==
  /\ [][ Len(reservations') > Len(reservations) =>
           LET r == reservations'[Len(reservations')]
           IN  /\ r.status = "pending"
               /\ ~ r.security_deposit_paid
               /\ r.reservation_date = now'
               /\ r.expires_at = r.reservation_date + 24
               /\ ~ (now' > r.expires_at) ]_vars
  /\ [](\A r \in DOMAIN reservations :
          is_expired(reservations[r])
            <=> now > reservations[r].reservation_date + 24)

\* C3 witness: a pending reservation at the very hour it expires, and one
\* past it
C3_Witness ==
  /\ \E r \in DOMAIN reservations :
       reservations[r].status = "pending" /\ now = reservations[r].expires_at
  /\ response.op = "reserve_unit"

\* C4 as stated: every SecurityDeposit amount, and every security deposit
\* Payment amount, is exactly rent_amount * 1.13.
C4_DepositExactly113Percent ==
  /\ \A k \in DOMAIN deposits :
       deposits[k].amount * 100 = units[k[2]].rent_amount * 113
  /\ \A p \in DOMAIN payments :
       payments[p].payment_type = "security_deposit"
         => payments[p].amount * 100 = units[payments[p].rental_unit].rent_amount * 113

\* C4 as amended: every SecurityDeposit amount is rent_amount * 1.13 rounded
\* to the nearest cent (the two decimal places of the column), and every
\* security deposit Payment has the amount of the SecurityDeposit of its
\* tenant and unit.
C4_DepositRounded113Percent ==
  /\ \A k \in DOMAIN deposits :
       NearestCentOfDeposit(deposits[k].amount, units[k[2]].rent_amount)
  /\ \A p \in DOMAIN payments :
       payments[p].payment_type = "security_deposit"
         => /\ <<payments[p].tenant, payments[p].rental_unit>> \in DOMAIN deposits
            /\ payments[p].amount
                 = deposits[<<payments[p].tenant, payments[p].rental_unit>>].amount

\* C4 witness: a security deposit Payment for a unit whose rent times 1.13
\* is not a whole number of cents
C4_Witness ==
  \E p \in DOMAIN payments :
    /\ payments[p].payment_type = "security_deposit"
    /\ (units[payments[p].rental_unit].rent_amount * 113) % 100 # 0
    /\ <<payments[p].tenant, payments[p].rental_unit>> \in DOMAIN deposits

\* C5: every rental unit's deposit_amount is 113% of its rent_amount (to the
\* cent), and so is the amount payment_redirect asks for.
C5_UnitDepositIs113Percent ==
  /\ \A u \in DOMAIN units :
       NearestCentOfDeposit(units[u].deposit_amount, units[u].rent_amount)
  /\ (response.op = "payment_redirect" /\ response.code = OK)
       => NearestCentOfDeposit(response.amount,
            units[reservations[response.target].unit].rent_amount)

\* C6: a tenant-only view called by a user who is not a tenant answers
\* Forbidden and leaves every reservation, payment and security deposit as
\* it was.
TenantOnlyViews ==
  {"reserve_unit", "available_units", "make_rental_payment", "payment_dashboard",
   "make_payment", "mpesa_payment", "bank_card_payment",
   "security_deposit_mpesa", "security_deposit_bank_card",
   "rent_payment_mpesa", "rent_payment_bank_card"}

C6_TenantOnly ==
  [][ (response'.op \in TenantOnlyViews
       /\ CustomUser[response'.user].role \in {ADMIN, PROPERTY_MANAGER, LANDLORD})
      => (response'.code = Forbidden
          /\ UNCHANGED <<reservations, payments, deposits>>) ]_vars

\* C6 witness: a landlord was refused a rental payment while there are
\* payments and deposits on record
C6_Witness ==
  /\ response.op = "make_rental_payment"
  /\ response.user = "landlord1"
  /\ response.code = Forbidden
  /\ payments # <<>>
  /\ DOMAIN deposits # {}

\* C7: view_payments refuses tenants; an admin is shown all payments, a
\* property manager those of the properties they manage, a landlord those of
\* the properties they own, and the filters only take payments away.
VisiblePayments(user) ==
  {p \in DOMAIN payments :
     \/ CustomUser[user].role = ADMIN
     \/ CustomUser[user].role = PROPERTY_MANAGER
          /\ Property[payments[p].property].manager = user
     \/ CustomUser[user].role = LANDLORD
          /\ Property[payments[p].property].owner = user}

MayBeShown(user, payment) ==
  \/ CustomUser[user].role = ADMIN
  \/ CustomUser[user].role = PROPERTY_MANAGER
       /\ Property[payment.property].manager = user
  \/ CustomUser[user].role = LANDLORD
       /\ Property[payment.property].owner = user

C8_PaymentDetailsPermission ==
  response.op = "payment_details" =>
    /\ response.code \in {OK, Forbidden, NotFound}
    /\ response.code = OK =>
         /\ response.target \in DOMAIN payments
         /\ MayBeShown(response.user, payments[response.target])
    /\ response.code = NotFound =>
         /\ response.target \notin DOMAIN payments
         /\ CustomUser[response.user].role # TENANT

\* C8 witness: a landlord who does not own the payment's property was
\* refused an existing payment
C8_Witness ==
  /\ response.op = "payment_details"
  /\ response.code = Forbidden
  /\ CustomUser[response.user].role = LANDLORD
  /\ response.target \in DOMAIN payments

\* C9: update_payment_status called by a landlord or a tenant answers
\* Forbidden and leaves every payment and every security deposit unchanged.
C9_UpdateStatusRefused ==
  [][ (response'.op = "update_payment_status"
       /\ CustomUser[response'.user].role \in {LANDLORD, TENANT})
      => (response'.code = Forbidden /\ UNCHANGED <<payments, deposits>>) ]_vars

\* C9 witness: a landlord was refused while a pending payment exists
C9_Witness ==
  /\ response.op = "update_payment_status"
  /\ response.user = "landlord1"
  /\ response.code = Forbidden
  /\ \E p \in DOMAIN payments :
       payments[p].property = 1 /\ payments[p].status = "pending"

\* C10: update_payment_status changes a payment or a security deposit only
\* for an admin or for the manager of the payment's property.
C10_ManagerOfPropertyOnly ==
  [][ (response'.op = "update_payment_status"
       /\ (payments' # payments \/ deposits' # deposits))
      => \/ CustomUser[response'.user].role = ADMIN
         \/ Property[payments[response'.target].property].manager = response'.user ]_vars

\* C11: the security deposit is paid before rent: whenever a request stores
\* a new payment of type 'rent', the security deposit of that tenant and unit
\* exists and is paid at that moment.
C11_DepositBeforeRent ==
  [][ (Len(payments') = Len(payments) + 1
       /\ payments'[Len(payments')].payment_type = "rent")
      => LET payment == payments'[Len(payments')]
             key == <<payment.tenant, payment.rental_unit>>
         IN  key \in DOMAIN deposits' /\ deposits'[key].is_paid ]_vars

\* C12: every rent payment covers 1 to 6 months and its amount is the unit's
\* rent_amount multiplied by months_paid_for.
C12_RentMonthsAndAmount ==
  \A p \in DOMAIN payments :
    payments[p].payment_type = "rent"
    => /\ payments[p].months_paid_for \in 1..6
       /\ payments[p].amount =
            units[payments[p].rental_unit].rent_amount * payments[p].months_paid_for

\* C13: str(property) is '<name> - <town>, <county display name>'.
C13_PropertyStr ==
  response.op = "str_property"
  => response.shown =
       { response.target.name \o <<" ", "-", " ">> \o response.target.town
           \o <<",", " ">> \o get_county_display(response.target) }

\* the units of a property, counted along the table
CountUnits(property_id, available_only) ==
  Len(SelectSeq(units, LAMBDA unit :
        /\ unit.property = property_id
        /\ (available_only => unit.is_available)))

\* C14: for every property get_total_units_count is the number of its rental
\* units and get_available_units_count the number of its available units, so
\* available <= total, and units of other properties are never counted: the
\* property list shows these numbers, and the totals of the properties add
\* up to the number of units.
C14_UnitCounts ==
  /\ \A p \in PropertyIds :
       /\ get_total_units_count(p) = CountUnits(p, FALSE)
       /\ get_available_units_count(p) = CountUnits(p, TRUE)
       /\ get_available_units_count(p) <= get_total_units_count(p)
  /\ get_total_units_count(1) + get_total_units_count(2) = Len(units)
  /\ response.op = "PropertyAdmin_list"
     => response.shown =
          {<<p, CountUnits(p, TRUE), CountUnits(p, FALSE)>> : p \in PropertyIds}

\* C14 witness: the list was shown while property 1 has a unit off the market
\* and property 2 has a unit on the market
C14_Witness ==
  /\ response.op = "PropertyAdmin_list"
  /\ <<1, 0, 1>> \in response.shown
  /\ <<2, 1, 1>> \in response.shown

\* C15: a property manager or a landlord can only create tenant accounts: an
\* add_tenant request made by a PROPERTY_MANAGER or a LANDLORD persists no
\* user whose role is not TENANT.
C15_OnlyTenantAccounts ==
  [][ (response'.op = "add_tenant"
       /\ CustomUser[response'.user].role \in {PROPERTY_MANAGER, LANDLORD})
      => \A i \in DOMAIN accounts' :
           i \notin DOMAIN accounts => accounts'[i].role = TENANT ]_vars

\* C15 witness: after a tenant account was created, a property manager posted
\* a valid form asking for an administrator account and got the form back
C15_Witness ==
  /\ response.op = "add_tenant"
  /\ response.user = "manager1"
  /\ response.target = ADMIN
  /\ response.shown = {"POST"}
  /\ response.code = OK
  /\ \E i \in DOMAIN accounts : accounts[i].role = TENANT
  /\ \E i \in DOMAIN accounts : accounts[i].role = ADMIN

\* C16: a tenant has at most one active reservation: for each tenant at most
\* one reservation is in status 'pending' or 'paid'.
C16_OneActiveReservationPerTenant ==
  \A i, j \in DOMAIN reservations :
    ( /\ reservations[i].tenant = reservations[j].tenant
      /\ reservations[i].status \in {"pending", "paid"}
      /\ reservations[j].status \in {"pending", "paid"} )
    => i = j

\* C18: a unit that has a reservation in status 'paid' or 'confirmed' is not
\* available.
C18_PaidUnitOffMarket ==
  \A r \in DOMAIN reservations :
    reservations[r].status \in {"paid", "confirmed"}
    => ~ units[reservations[r].unit].is_available

\* C17: a unit is held by at most one tenant at a time: no rental unit has
\* two reservations that are both in status 'pending' or 'paid', also when
\* reserve_unit requests of two tenants for the unit are served at the same
\* time.
C17_OneHolderPerUnit ==
  \A i, j \in DOMAIN reservations :
    ( /\ reservations[i].unit = reservations[j].unit
      /\ reservations[i].status \in {"pending", "paid"}
      /\ reservations[j].status \in {"pending", "paid"}
      /\ i # j )
    => FALSE

ReservationViews ==
  {"reservation_detail", "payment_redirect", "payment_success", "cancel_reservation"}

\* C19: only the reservation's own tenant can act on it: reservation_detail,
\* payment_redirect, payment_success and cancel_reservation called by a user
\* who is not the reservation's tenant answer Forbidden and leave the
\* reservations and the units unchanged.
C19_OwnReservationOnly ==
  [][ ( /\ response'.op \in ReservationViews
        /\ response'.target \in DOMAIN reservations
        /\ reservations[response'.target].tenant # response'.user )
      => /\ response'.code = Forbidden
         /\ UNCHANGED <<reservations, units>> ]_vars

\* C19 witness: a tenant asked payment_success for a pending reservation of
\* the other tenant and was refused
C19_Witness ==
  /\ response.op = "payment_success"
  /\ response.code = Forbidden
  /\ response.target \in DOMAIN reservations
  /\ reservations[response.target].tenant # response.user
  /\ reservations[response.target].status = "pending"

====
